---- MODULE Spec2Model ----
(***************************************************************************)
(* nameko/runners.py: ServiceRunner (the lifecycle Runner) and             *)
(* run_services (the scoped session helper).                               *)
(*                                                                         *)
(* A single caller drives the Runner; every fan-out call spawns one        *)
(* concurrent task per registered container, and the tasks run interleaved *)
(* with each other and with the tasks a fail-fast wait() left behind.      *)
(* SpawningProxy (nameko.utils.concurrency) is modelled from the           *)
(* specification's description of the fan-out executor.                    *)
(***************************************************************************)
EXTENDS Integers, FiniteSets, Sequences, TLC

\* most containers ever constructed by add_service
MaxHandles == 2
\* number of distinct service names
MaxNames == 2
\* most Runner calls the caller makes itself, directly or in the session block
MaxCalls == 1

Handles == 1..MaxHandles
Names == 1..MaxNames
NoHandle == 0
Ops == {"start", "stop", "kill", "wait"}

VARIABLES
    service_map,   \* self.service_map: name -> container (NoHandle: absent)
    nextHandle,    \* the next container add_service constructs
    call,          \* the Runner method in progress, or the last one completed
    pc,            \* position inside it: "idle", "fanout", "recover"
    task,          \* the current (or last) fan-out's task per container
    firstErr,      \* container whose wait failure the fail-fast fan-out raised
    bg,            \* wait tasks a fail-fast return left running, per container
    calls,         \* operation invocations received, per container and operation
    mark,          \* value of calls when the current top-level call was made
    outcome,       \* how the last completed Runner call ended
    sess,          \* run_services position ("off": the Runner is used directly)
    kill_on_exit,  \* run_services keyword argument
    teardown,      \* the Runner method run_services called after the block
    nCalls,        \* Runner calls the caller has made itself so far
    nDispatch      \* fan-outs begun so far, per operation

vars == <<service_map, nextHandle, call, pc, task, firstErr, bg, calls, mark,
          outcome, sess, kill_on_exit, teardown, nCalls, nDispatch>>

----
\* ServiceRunner.containers / service_names: views over the registry

\* faulty variant: only the first service's container is handed to the fan-out
containersFirst(sm) == {sm[n] : n \in {m \in Names : m = 1}} \ {NoHandle}

containers(sm) == {sm[n] : n \in Names} \ {NoHandle}

service_names(sm) == {n \in Names : sm[n] # NoHandle}

----
\* The fan-out executor (SpawningProxy)

\* one task per target, none for the others
Spawn(targets) == [h \in Handles |-> IF h \in targets THEN "spawned" ELSE "none"]

NoTasks == [h \in Handles |-> "none"]

InFlight(t) == {h \in Handles : t[h] \in {"spawned", "running"}}

Failed(t) == {h \in Handles : t[h] = "failed"}

\* aggregate policy: the call returns only after every task has finished
AggregateDone(t) == InFlight(t) = {}

\* fail-fast policy, path (a): every task finished successfully
FailFastDone(t) == \A h \in Handles : t[h] \in {"none", "ok"}

\* outcomes of a Runner call
NoOutcome == [kind |-> "none", op |-> "none", who |-> {}]
Success == [kind |-> "ok", op |-> "none", who |-> {}]
AggregateFailure(o, F) == [kind |-> "aggregate", op |-> o, who |-> F]
SingleFailure(o, h) == [kind |-> "single", op |-> o, who |-> {h}]

AggregateOutcome(o, t) ==
    IF Failed(t) = {} THEN Success ELSE AggregateFailure(o, Failed(t))

\* the operation the tasks of the current fan-out invoke
CurOp == IF pc = "recover" THEN "stop" ELSE call

TypeOK ==
    /\ service_map \in [Names -> Handles \cup {NoHandle}]
    /\ nextHandle \in 1..(MaxHandles + 1)
    /\ call \in Ops \cup {"none"}
    /\ pc \in {"idle", "fanout", "recover"}
    /\ task \in [Handles -> {"none", "spawned", "running", "ok", "failed"}]
    /\ firstErr \in Handles \cup {NoHandle}
    /\ bg \in [Handles -> [spawned : Nat, running : Nat]]
    /\ calls \in [Handles -> [Ops -> Nat]]
    /\ mark \in [Handles -> [Ops -> Nat]]
    /\ sess \in {"off", "setup", "start", "block", "teardown", "exited",
                 "start_failed", "block_raised"}
    /\ kill_on_exit \in BOOLEAN
    /\ teardown \in {"none", "stop", "kill"}
    /\ nCalls \in 0..MaxCalls
    /\ nDispatch \in [Ops -> Nat]

----
Init ==
    /\ service_map = [n \in Names |-> NoHandle]
    /\ nextHandle = 1
    /\ call = "none"
    /\ pc = "idle"
    /\ task = NoTasks
    /\ firstErr = NoHandle
    /\ bg = [h \in Handles |-> [spawned |-> 0, running |-> 0]]
    /\ calls = [h \in Handles |-> [o \in Ops |-> 0]]
    /\ mark = [h \in Handles |-> [o \in Ops |-> 0]]
    /\ outcome = NoOutcome
    /\ sess \in {"off", "setup"}
    /\ kill_on_exit \in (IF sess = "off" THEN {FALSE} ELSE BOOLEAN)
    /\ teardown = "none"
    /\ nCalls = 0
    /\ nDispatch = [o \in Ops |-> 0]

\* faulty variant: a name already registered keeps its first container
add_serviceKeepFirst(n) ==
    /\ sess \in {"off", "setup"}
    /\ \A m \in Names : m < n => service_map[m] # NoHandle
    /\ \A m \in Names : m > n => service_map[m] = NoHandle
    /\ pc = "idle"
    /\ call = "none"
    /\ nextHandle <= MaxHandles
    /\ service_map' = IF service_map[n] # NoHandle THEN service_map
                      ELSE [service_map EXCEPT ![n] = nextHandle]
    /\ nextHandle' = nextHandle + 1
    /\ UNCHANGED <<call, pc, task, firstErr, bg, calls, mark, outcome, sess,
                   kill_on_exit, teardown, nCalls,
                   nDispatch>>

\* add_service: a new container is constructed and stored under the service's
\* name, replacing the one stored there.  Services are registered before the
\* first fan-out call (the docstring's contract; run_services does so itself).
\* Names are interchangeable, so the services arrive sorted by name: n is the
\* last name registered or the one after it.
add_service(n) ==
    /\ sess \in {"off", "setup"}
    /\ \A m \in Names : m < n => service_map[m] # NoHandle
    /\ \A m \in Names : m > n => service_map[m] = NoHandle
    /\ pc = "idle"
    /\ call = "none"
    /\ nextHandle <= MaxHandles
    /\ service_map' = [service_map EXCEPT ![n] = nextHandle]
    /\ nextHandle' = nextHandle + 1
    /\ UNCHANGED <<call, pc, task, firstErr, bg, calls, mark, outcome, sess,
                   kill_on_exit, teardown, nCalls,
                   nDispatch>>

\* faulty variant: a container that already received the operation is skipped
DispatchOnce(o) ==
    /\ call' = o
    /\ pc' = "fanout"
    /\ task' = Spawn({h \in containers(service_map) : calls[h][o] = 0})
    /\ firstErr' = NoHandle
    /\ mark' = calls
    /\ outcome' = NoOutcome
    /\ nDispatch' = [nDispatch EXCEPT ![o] = @ + 1]
    /\ UNCHANGED <<service_map, nextHandle, bg, calls, kill_on_exit>>

\* SpawningProxy(self.containers).<o>(): the Runner method o is entered and
\* one task per container is spawned
Dispatch(o) ==
    /\ call' = o
    /\ pc' = "fanout"
    /\ task' = Spawn(containers(service_map))
    /\ firstErr' = NoHandle
    /\ mark' = calls
    /\ outcome' = NoOutcome
    /\ nDispatch' = [nDispatch EXCEPT ![o] = @ + 1]
    /\ UNCHANGED <<service_map, nextHandle, bg, calls, kill_on_exit>>

\* the caller (directly, or inside the session block) calls a Runner method
Call(o) ==
    /\ sess \in {"off", "block"}
    /\ pc = "idle"
    /\ nCalls < MaxCalls
    /\ Dispatch(o)
    /\ nCalls' = nCalls + 1
    /\ UNCHANGED <<sess, teardown>>

start == Call("start")
stop == Call("stop")
kill == Call("kill")
wait == Call("wait")

----
\* One task of the current fan-out starts executing: it invokes the operation
\* on its container
TaskRun(h) ==
    /\ pc \in {"fanout", "recover"}
    /\ task[h] = "spawned"
    /\ task' = [task EXCEPT ![h] = "running"]
    /\ calls' = [calls EXCEPT ![h][CurOp] = @ + 1]
    /\ UNCHANGED <<service_map, nextHandle, call, pc, firstErr, bg, mark,
                   outcome, sess, kill_on_exit, teardown, nCalls,
                   nDispatch>>

\* The container's operation returns (res = "ok") or raises (res = "failed").
\* Under fail-fast the first failure is the one handed to the waiting caller.
TaskFinish(h, res) ==
    /\ pc \in {"fanout", "recover"}
    /\ task[h] = "running"
    /\ task' = [task EXCEPT ![h] = res]
    /\ firstErr' = IF CurOp = "wait" /\ res = "failed" /\ firstErr = NoHandle
                   THEN h ELSE firstErr
    /\ UNCHANGED <<service_map, nextHandle, call, pc, bg, calls, mark,
                   outcome, sess, kill_on_exit, teardown, nCalls,
                   nDispatch>>

\* faulty variant: the block is entered whether start() raised or not
SessAfterBlockAnyway(s, out) ==
    CASE s = "start" -> "block"
      [] s = "teardown" -> "exited"
      [] OTHER -> s

\* run_services after a Runner call it made itself has returned or raised
SessAfter(s, out) ==
    CASE s = "start" -> IF out.kind = "ok" THEN "block" ELSE "start_failed"
      [] s = "teardown" -> "exited"
      [] OTHER -> s

\* faulty variant: a failed start() stops the containers before it raises
AggregateReturnAutoStop ==
    /\ pc = "fanout"
    /\ call \in {"start", "stop", "kill"}
    /\ AggregateDone(task)
    /\ IF call = "start" /\ Failed(task) # {}
       THEN /\ task' = Spawn(containers(service_map))
            /\ pc' = "recover"
            /\ nDispatch' = [nDispatch EXCEPT !["stop"] = @ + 1]
            /\ UNCHANGED <<outcome, sess>>
       ELSE /\ outcome' = AggregateOutcome(call, task)
            /\ pc' = "idle"
            /\ sess' = SessAfter(sess, outcome')
            /\ UNCHANGED <<task, nDispatch>>
    /\ UNCHANGED <<service_map, nextHandle, call, firstErr, bg, calls,
                   mark, kill_on_exit, teardown, nCalls>>

\* faulty variant: the call does not wait for its tasks to finish
AggregateReturnEarly ==
    /\ pc = "fanout"
    /\ call \in {"start", "stop", "kill"}
    /\ outcome' = AggregateOutcome(call, task)
    /\ pc' = "idle"
    /\ sess' = SessAfter(sess, outcome')
    /\ UNCHANGED <<service_map, nextHandle, call, task, firstErr, bg, calls,
                   mark, kill_on_exit, teardown, nCalls,
                   nDispatch>>

\* faulty variant: only one of the failures is reported
AggregateReturnFirstOnly ==
    /\ pc = "fanout"
    /\ call \in {"start", "stop", "kill"}
    /\ AggregateDone(task)
    /\ outcome' = IF Failed(task) = {} THEN Success
                  ELSE AggregateFailure(call,
                           {CHOOSE h \in Failed(task) : \A g \in Failed(task) : h <= g})
    /\ pc' = "idle"
    /\ sess' = SessAfter(sess, outcome')
    /\ UNCHANGED <<service_map, nextHandle, call, task, firstErr, bg, calls,
                   mark, kill_on_exit, teardown, nCalls,
                   nDispatch>>

\* start(), stop() or kill() returns, or raises the aggregate failure
AggregateReturn ==
    /\ pc = "fanout"
    /\ call \in {"start", "stop", "kill"}
    /\ AggregateDone(task)
    /\ outcome' = AggregateOutcome(call, task)
    /\ pc' = "idle"
    /\ sess' = SessAfter(sess, outcome')
    /\ UNCHANGED <<service_map, nextHandle, call, task, firstErr, bg, calls,
                   mark, kill_on_exit, teardown, nCalls,
                   nDispatch>>

\* faulty variant: wait() returns while waits are still in flight
WaitReturnEarly ==
    /\ pc = "fanout"
    /\ call = "wait"
    /\ firstErr = NoHandle
    /\ outcome' = Success
    /\ pc' = "idle"
    /\ UNCHANGED <<service_map, nextHandle, call, task, firstErr, bg, calls,
                   mark, sess, kill_on_exit, teardown, nCalls,
                   nDispatch>>

\* wait() returns: every container's wait has returned
WaitReturn ==
    /\ pc = "fanout"
    /\ call = "wait"
    /\ firstErr = NoHandle
    /\ FailFastDone(task)
    /\ outcome' = Success
    /\ pc' = "idle"
    /\ UNCHANGED <<service_map, nextHandle, call, task, firstErr, bg, calls,
                   mark, sess, kill_on_exit, teardown, nCalls,
                   nDispatch>>

\* the wait tasks still in flight when the fail-fast fan-out raises are left
\* running in the background
Orphaned(t) ==
    [h \in Handles |->
        [spawned |-> bg[h].spawned + (IF t[h] = "spawned" THEN 1 ELSE 0),
         running |-> bg[h].running + (IF t[h] = "running" THEN 1 ELSE 0)]]

\* faulty variant: the handler stops the peers of the failed container only
WaitExceptPeersOnly ==
    /\ pc = "fanout"
    /\ call = "wait"
    /\ firstErr # NoHandle
    /\ bg' = Orphaned(task)
    /\ task' = Spawn(containers(service_map) \ {firstErr})
    /\ pc' = "recover"
    /\ nDispatch' = [nDispatch EXCEPT !["stop"] = @ + 1]
    /\ UNCHANGED <<service_map, nextHandle, call, firstErr, calls, mark,
                   outcome, sess, kill_on_exit, teardown, nCalls>>

\* faulty variant: self.stop() runs in a finally clause, failure or not
WaitExceptAlways ==
    /\ pc = "fanout"
    /\ call = "wait"
    /\ firstErr # NoHandle \/ FailFastDone(task)
    /\ bg' = Orphaned(task)
    /\ task' = Spawn(containers(service_map))
    /\ pc' = "recover"
    /\ nDispatch' = [nDispatch EXCEPT !["stop"] = @ + 1]
    /\ UNCHANGED <<service_map, nextHandle, call, firstErr, calls, mark,
                   outcome, sess, kill_on_exit, teardown, nCalls>>

\* faulty variant: the waits still in flight are cancelled when wait() fails
WaitExceptCancel ==
    /\ pc = "fanout"
    /\ call = "wait"
    /\ firstErr # NoHandle
    /\ task' = Spawn(containers(service_map))
    /\ pc' = "recover"
    /\ nDispatch' = [nDispatch EXCEPT !["stop"] = @ + 1]
    /\ UNCHANGED <<service_map, nextHandle, call, firstErr, bg, calls, mark,
                   outcome, sess, kill_on_exit, teardown, nCalls>>

\* faulty variant: the failure is raised only after every wait has finished
WaitExceptAfterAll ==
    /\ pc = "fanout"
    /\ call = "wait"
    /\ firstErr # NoHandle
    /\ InFlight(task) = {}
    /\ bg' = Orphaned(task)
    /\ task' = Spawn(containers(service_map))
    /\ pc' = "recover"
    /\ nDispatch' = [nDispatch EXCEPT !["stop"] = @ + 1]
    /\ UNCHANGED <<service_map, nextHandle, call, firstErr, calls, mark,
                   outcome, sess, kill_on_exit, teardown, nCalls>>

\* wait(), except Exception: the fan-out raised a container's failure and the
\* handler calls self.stop()
WaitExcept ==
    /\ pc = "fanout"
    /\ call = "wait"
    /\ firstErr # NoHandle
    /\ bg' = Orphaned(task)
    /\ task' = Spawn(containers(service_map))
    /\ pc' = "recover"
    /\ nDispatch' = [nDispatch EXCEPT !["stop"] = @ + 1]
    /\ UNCHANGED <<service_map, nextHandle, call, firstErr, calls, mark,
                   outcome, sess, kill_on_exit, teardown, nCalls>>

\* what leaves the except handler: the bare raise re-raises the wait failure
\* when self.stop() returned; an exception raised by self.stop() leaves instead
ReRaise(stopOutcome, h) ==
    IF stopOutcome.kind = "ok" THEN SingleFailure("wait", h) ELSE stopOutcome

\* faulty variant: the handler re-raises without waiting for self.stop()
RecoverReturnEarly ==
    /\ pc = "recover"
    /\ outcome' = ReRaise(AggregateOutcome("stop", task), firstErr)
    /\ pc' = "idle"
    /\ UNCHANGED <<service_map, nextHandle, call, task, firstErr, bg, calls,
                   mark, sess, kill_on_exit, teardown, nCalls,
                   nDispatch>>

\* faulty variant: the failed container is dropped from the registry
RecoverReturnDrops ==
    /\ pc = "recover"
    /\ AggregateDone(task)
    /\ outcome' = ReRaise(AggregateOutcome("stop", task), firstErr)
    /\ pc' = "idle"
    /\ service_map' = [n \in Names |-> IF service_map[n] = firstErr
                                       THEN NoHandle ELSE service_map[n]]
    /\ UNCHANGED <<nextHandle, call, task, firstErr, bg, calls,
                   mark, sess, kill_on_exit, teardown, nCalls,
                   nDispatch>>

\* faulty variant: the handler stops the containers once more when waits are
\* still pending after the first stop()
RecoverReturnRestop ==
    /\ pc = "recover"
    /\ AggregateDone(task)
    /\ IF /\ \E h \in Handles : bg[h].spawned + bg[h].running > 0
          /\ \A h \in Handles : calls[h]["stop"] - mark[h]["stop"] <= 1
       THEN /\ task' = Spawn(containers(service_map))
            /\ nDispatch' = [nDispatch EXCEPT !["stop"] = @ + 1]
            /\ UNCHANGED <<outcome, pc>>
       ELSE /\ outcome' = ReRaise(AggregateOutcome("stop", task), firstErr)
            /\ pc' = "idle"
            /\ UNCHANGED <<task, nDispatch>>
    /\ UNCHANGED <<service_map, nextHandle, call, firstErr, bg, calls,
                   mark, sess, kill_on_exit, teardown, nCalls>>

\* wait(): self.stop() inside the handler has finished and wait() raises
RecoverReturn ==
    /\ pc = "recover"
    /\ AggregateDone(task)
    /\ outcome' = ReRaise(AggregateOutcome("stop", task), firstErr)
    /\ pc' = "idle"
    /\ UNCHANGED <<service_map, nextHandle, call, task, firstErr, bg, calls,
                   mark, sess, kill_on_exit, teardown, nCalls,
                   nDispatch>>

\* a wait task left in the background starts executing
BgRun(h) ==
    /\ bg[h].spawned > 0
    /\ bg' = [bg EXCEPT ![h] = [spawned |-> @.spawned - 1, running |-> @.running + 1]]
    /\ calls' = [calls EXCEPT ![h]["wait"] = @ + 1]
    /\ UNCHANGED <<service_map, nextHandle, call, pc, task, firstErr, mark,
                   outcome, sess, kill_on_exit, teardown, nCalls,
                   nDispatch>>

\* a wait task left in the background finishes; nobody observes its outcome
BgFinish(h) ==
    /\ bg[h].running > 0
    /\ bg' = [bg EXCEPT ![h].running = @ - 1]
    /\ UNCHANGED <<service_map, nextHandle, call, pc, task, firstErr, calls,
                   mark, outcome, sess, kill_on_exit, teardown, nCalls,
                   nDispatch>>

----
\* run_services

\* runner.start() after the services were added
SessStart ==
    /\ sess = "setup"
    /\ pc = "idle"
    /\ Dispatch("start")
    /\ sess' = "start"
    /\ UNCHANGED <<teardown, nCalls>>

\* faulty variant: the two branches of the exit test are swapped
TeardownOpSwapped(k) == IF k THEN "stop" ELSE "kill"

\* the method run_services calls after the yield
TeardownOp(k) == IF k THEN "kill" ELSE "stop"

\* the block exits normally: the generator resumes after the yield
BlockExit ==
    /\ sess = "block"
    /\ pc = "idle"
    /\ Dispatch(TeardownOp(kill_on_exit))
    /\ teardown' = TeardownOp(kill_on_exit)
    /\ sess' = "teardown"
    /\ UNCHANGED nCalls

\* the block raises: the exception is thrown into the generator at the yield,
\* which has no handler, so the generator ends there
BlockRaise ==
    /\ sess = "block"
    /\ pc = "idle"
    /\ sess' = "block_raised"
    /\ UNCHANGED <<service_map, nextHandle, call, pc, task, firstErr, bg, calls,
                   mark, outcome, kill_on_exit, teardown, nCalls,
                   nDispatch>>

----
Next ==
    \/ \E n \in Names : add_service(n)
    \/ start
    \/ stop
    \/ kill
    \/ wait
    \/ \E h \in Handles : TaskRun(h)
    \/ \E h \in Handles : TaskFinish(h, "ok")
    \/ \E h \in Handles : TaskFinish(h, "failed")
    \/ AggregateReturn
    \/ WaitReturn
    \/ WaitExcept
    \/ RecoverReturn
    \/ \E h \in Handles : BgRun(h)
    \/ \E h \in Handles : BgFinish(h)
    \/ SessStart
    \/ BlockExit
    \/ BlockRaise

Spec == Init /\ [][Next]_vars

\* The Runner used directly, outside run_services
InitDirect == Init /\ sess = "off"

NextDirect ==
    \/ \E n \in Names : add_service(n)
    \/ start
    \/ stop
    \/ kill
    \/ wait
    \/ \E h \in Handles : TaskRun(h)
    \/ \E h \in Handles : TaskFinish(h, "ok")
    \/ \E h \in Handles : TaskFinish(h, "failed")
    \/ AggregateReturn
    \/ WaitReturn
    \/ WaitExcept
    \/ RecoverReturn
    \/ \E h \in Handles : BgRun(h)
    \/ \E h \in Handles : BgFinish(h)

\* The caller's own steps inside wait() are taken once they are possible, and
\* every container's stop terminates; nothing is assumed of the waits.
FairSpec ==
    /\ InitDirect
    /\ [][NextDirect]_vars
    /\ WF_vars(WaitReturn)
    /\ WF_vars(WaitExcept)
    /\ WF_vars(RecoverReturn)
    /\ \A h \in Handles :
          /\ WF_vars(pc = "recover" /\ TaskRun(h))
          /\ WF_vars(pc = "recover" /\ (TaskFinish(h, "ok") \/ TaskFinish(h, "failed")))

----
\* Vocabulary of the properties

\* the containers the registry holds
Registered == {h \in Handles : \E n \in Names : service_map[n] = h}

\* invocations of o on h since the current top-level Runner call was made
Delta(h, o) == calls[h][o] - mark[h][o]

\* the Runner method m has returned or raised
Returned(m) == pc = "idle" /\ call = m /\ outcome.kind # "none"

\* the Runner method m has raised
Raised(m) == Returned(m) /\ outcome.kind # "ok"

\* wait tasks of h that a fail-fast return left in flight
Straggling(h) == bg[h].spawned + bg[h].running > 0

----
\* C1: once start() has returned or raised, start has been invoked exactly once
\* on every registered container and on no other, and start() raised an
\* aggregate failure exactly when some container's start failed.
C1_AggregateCompleteness ==
    Returned("start") =>
        /\ \A h \in Handles : Delta(h, "start") = (IF h \in Registered THEN 1 ELSE 0)
        /\ outcome.kind \in {"ok", "aggregate"}
        /\ outcome.kind = "aggregate" <=> Failed(task) # {}
        /\ outcome.kind = "aggregate" => outcome = AggregateFailure("start", Failed(task))

\* start() raised although one container started and another failed to
C1_Witness ==
    /\ Raised("start")
    /\ \E h \in Registered : task[h] = "failed"
    /\ \E h \in Registered : task[h] = "ok"

\* C2: whenever wait() raises, what it raises is the unwrapped failure of the
\* container whose wait failed first.
C2_FailFastOriginalError ==
    Raised("wait") => outcome = SingleFailure("wait", firstErr)

\* C3: whenever wait() has raised, stop has been invoked exactly once on every
\* registered container during that call, and on no other container.
C3_FailFastCleanup ==
    Raised("wait") =>
        \A h \in Handles : Delta(h, "stop") = (IF h \in Registered THEN 1 ELSE 0)

\* wait() raised while the wait task of a peer of the failed container was
\* still in flight
C3_Witness ==
    /\ Raised("wait")
    /\ firstErr \in Registered
    /\ \E h \in Registered \ {firstErr} : Straggling(h)

\* C4: once the session block has been left, normally or by an exception, the
\* session helper has made its teardown call.
C4_TeardownOnEveryExit ==
    sess \in {"teardown", "exited", "block_raised"} => teardown # "none"

\* C5: when wait() raises and the stop() of its handler failed for some
\* container, what wait() raises is still the original wait failure.
C5_OriginalSurvivesFailedStop ==
    (Raised("wait") /\ Failed(task) # {}) =>
        (outcome.kind = "single" /\ outcome.op = "wait" /\ outcome.who = {firstErr})

\* C6: once the session has exited normally, the teardown operation kill_on_exit
\* selects has been invoked exactly once on every registered container by the
\* teardown call, and the other operation not at all.
C6_ScopedTeardown ==
    sess = "exited" =>
        LET td == IF kill_on_exit THEN "kill" ELSE "stop"
            other == IF kill_on_exit THEN "stop" ELSE "kill"
        IN /\ teardown = td
           /\ call = td
           /\ \A h \in Handles :
                 /\ Delta(h, td) = (IF h \in Registered THEN 1 ELSE 0)
                 /\ Delta(h, other) = 0

\* a session over two containers exited normally with kill_on_exit set
C6_Witness ==
    /\ sess = "exited"
    /\ kill_on_exit
    /\ Cardinality(Registered) = 2

\* C7: a container replaced in the registry is never invoked: the last container
\* constructed is registered, no two names hold the same container, and a
\* container the registry does not hold has received no operation call.
C7_RegistryOverwrite ==
    /\ nextHandle > 1 => (nextHandle - 1) \in Registered
    /\ \A n, m \in Names :
          (service_map[n] # NoHandle /\ service_map[n] = service_map[m]) => n = m
    /\ \A h \in Handles : h \notin Registered => \A o \in Ops : calls[h][o] = 0

\* a name was registered twice and the second container has been started and
\* stopped by a session
C7_Witness ==
    /\ nextHandle = 3
    /\ Registered = {2}
    /\ calls[2]["start"] = 1
    /\ calls[2]["stop"] = 1
    /\ pc = "idle"

\* C8: with an empty registry no Runner call raises, none invokes an operation
\* on any container, and wait() never enters its recovery stop().
C8_EmptyRegistry ==
    Registered = {} =>
        /\ pc # "recover"
        /\ outcome.kind \in {"none", "ok"}
        /\ \A h \in Handles : \A o \in Ops : calls[h][o] = 0

\* wait() returned in the block of a session over no services
C8_Witness ==
    /\ Registered = {}
    /\ Returned("wait")
    /\ sess = "block"

\* C9: inside wait(), no stop is invoked before a container's wait failure was
\* raised, the recovery stop() runs only for such a failure, and wait() has not
\* raised while a task of the recovery stop() is unfinished.
C9_RecoverySequencing ==
    /\ (call = "wait" /\ pc = "fanout") => \A h \in Handles : Delta(h, "stop") = 0
    /\ pc = "recover" => (call = "wait" /\ firstErr # NoHandle)
    /\ Raised("wait") =>
          \A h \in Handles :
              task[h] \in (IF h \in Registered THEN {"ok", "failed"} ELSE {"none"})

\* wait() raised after the recovery stop() ran over two containers
C9_Witness ==
    /\ Raised("wait")
    /\ Cardinality(Registered) = 2
    /\ \A h \in Registered : task[h] = "ok"

\* C10: when start() has raised, neither stop nor kill has been invoked on any
\* container during that call.
C10_NoAutoStop ==
    Raised("start") =>
        \A h \in Handles : Delta(h, "stop") = 0 /\ Delta(h, "kill") = 0

\* start() raised for one container only; the other one started
C10_Witness ==
    /\ Raised("start")
    /\ Cardinality(Registered) = 2
    /\ Cardinality(Failed(task)) = 1
    /\ sess = "off"

\* C11: wait() has returned normally exactly when no container's wait failed,
\* and then every registered container's wait task has finished successfully
\* and neither stop nor kill was invoked during the call.
C11_WaitReturnsNormally ==
    Returned("wait") =>
        /\ outcome.kind = "ok" <=> firstErr = NoHandle
        /\ outcome.kind = "ok" =>
              \A h \in Handles :
                  /\ task[h] = (IF h \in Registered THEN "ok" ELSE "none")
                  /\ Delta(h, "stop") = 0
                  /\ Delta(h, "kill") = 0

\* wait() returned normally over two containers
C11_Witness ==
    /\ Returned("wait")
    /\ outcome.kind = "ok"
    /\ Cardinality(Registered) = 2

\* C12: once start(), stop() or kill() has returned or raised, the task of
\* every registered container has finished, successfully or not, and none is
\* in flight.
C12_AggregateBlocks ==
    (Returned("start") \/ Returned("stop") \/ Returned("kill")) =>
        \A h \in Handles :
            task[h] \in (IF h \in Registered THEN {"ok", "failed"} ELSE {"none"})

\* stop() raised after both tasks finished, one of them with a failure
C12_Witness ==
    /\ Raised("stop")
    /\ \E h, g \in Registered : task[h] = "failed" /\ task[g] = "ok"

\* C13: the aggregate failure raised by start(), stop() or kill() carries
\* exactly the containers whose operation failed in that call.
C13_AggregateContent ==
    \A m \in {"start", "stop", "kill"} :
        Raised(m) =>
            /\ outcome.kind = "aggregate"
            /\ outcome.op = m
            /\ outcome.who = {h \in Registered : task[h] = "failed"}
            /\ outcome.who # {}

\* kill() raised with the failures of both containers
C13_Witness ==
    /\ Raised("kill")
    /\ Cardinality(outcome.who) = 2

\* wait tasks of h dispatched and not yet executing, in a wait() in progress
\* or left in the background
SpawnedWaits(h) ==
    bg[h].spawned +
    (IF call = "wait" /\ pc = "fanout" /\ task[h] = "spawned" THEN 1 ELSE 0)

\* wait tasks of h inside the container's wait
RunningWaits(h) ==
    bg[h].running +
    (IF call = "wait" /\ pc = "fanout" /\ task[h] = "running" THEN 1 ELSE 0)

\* C14: no wait task is cancelled, whether wait() has raised or not: a
\* dispatched wait task leaves the spawned state only by invoking wait on its
\* container, and a running one only by the container's wait finishing.
C14_FailFastDoesNotCancel ==
    [][\A h \in Handles :
          /\ SpawnedWaits(h)' < SpawnedWaits(h) =>
                /\ SpawnedWaits(h)' = SpawnedWaits(h) - 1
                /\ RunningWaits(h)' = RunningWaits(h) + 1
                /\ calls'[h]["wait"] = calls[h]["wait"] + 1
          /\ RunningWaits(h)' < RunningWaits(h) =>
                /\ RunningWaits(h)' = RunningWaits(h) - 1
                /\ SpawnedWaits(h)' = SpawnedWaits(h)
                /\ \/ bg'[h].running = bg[h].running - 1
                   \/ task'[h] \in {"ok", "failed"}]_vars

\* wait() has raised and a peer's wait is still executing in the background
C14_Witness ==
    /\ Raised("wait")
    /\ \E h \in Registered : h # firstErr /\ bg[h].running = 1 /\ bg[h].spawned = 0

\* C16: the registry changes only in a step of add_service, made before any
\* Runner call; no step of start(), stop(), kill() or wait() changes it.
C16_RegistryFrame ==
    [][service_map' # service_map =>
          /\ pc = "idle" /\ pc' = "idle"
          /\ call = "none" /\ call' = "none"
          /\ nextHandle' = nextHandle + 1
          /\ \E n \in Names : service_map' = [service_map EXCEPT ![n] = nextHandle]
          /\ calls' = calls]_vars

\* wait() failed in the session block and ran its recovery stop(), with both
\* containers still registered
C16_Witness ==
    /\ Raised("wait")
    /\ Registered = {1, 2}
    /\ sess = "block"

\* C17: in run_services nothing is invoked while services are registered, the
\* block is entered only after the helper's single start() returned normally
\* with start invoked once on every registered container, and every container
\* of the Runner in the block has been started.
C17_SessionOrdering ==
    /\ sess = "setup" =>
          (call = "none" /\ \A h \in Handles : \A o \in Ops : calls[h][o] = 0)
    /\ sess = "start" => (call = "start" /\ nCalls = 0 /\ nDispatch["start"] = 1)
    /\ (sess = "block" /\ nCalls = 0) =>
          /\ Returned("start")
          /\ outcome.kind = "ok"
          /\ \A h \in Handles :
                calls[h] = [o \in Ops |->
                               IF o = "start" /\ h \in Registered THEN 1 ELSE 0]
    /\ sess \in {"block", "teardown", "exited", "block_raised"} =>
          \A h \in Registered : calls[h]["start"] >= 1

\* the block has just been entered with two started containers
C17_Witness ==
    /\ sess = "block"
    /\ nCalls = 0
    /\ Cardinality(Registered) = 2

\* invocations of o on h not yet made by a task already dispatched
Pending(h, o) ==
    (IF pc # "idle" /\ CurOp = o /\ task[h] = "spawned" THEN 1 ELSE 0) +
    (IF o = "wait" THEN bg[h].spawned ELSE 0)

\* invocations of o on h made or dispatched so far
Issued(h, o) == calls[h][o] + Pending(h, o)

C19_OneRecovery ==
    [][/\ call' = "wait" =>
            \A h \in Handles :
                /\ calls'[h]["stop"] - mark'[h]["stop"] <= 1
                /\ calls'[h]["kill"] = mark'[h]["kill"]
       /\ (pc = "idle" /\ pc' = "idle") =>
            /\ outcome' = outcome
            /\ \A h \in Handles :
                  /\ calls'[h]["stop"] = calls[h]["stop"]
                  /\ calls'[h]["kill"] = calls[h]["kill"]
       /\ (pc = "recover" /\ pc' # "recover") => pc' = "idle"]_vars

\* the waits of two containers have both failed within one wait() call
C19_Witness ==
    /\ call = "wait"
    /\ pc = "fanout"
    /\ Cardinality(Failed(task)) = 2

\* C20: when the start() of run_services raises, the helper stops there: the
\* block is not entered and no stop, kill or wait reaches any container.
C20_SessionStartFailure ==
    /\ (sess # "off" /\ nCalls = 0 /\ Raised("start")) => sess = "start_failed"
    /\ sess = "start_failed" =>
          /\ Raised("start")
          /\ nCalls = 0
          /\ teardown = "none"
          /\ \A h \in Handles : \A o \in {"stop", "kill", "wait"} : calls[h][o] = 0

\* the session's start() raised although one container did start
C20_Witness ==
    /\ sess = "start_failed"
    /\ \E h, g \in Registered : task[h] = "ok" /\ task[g] = "failed"

\* C15: once a container's wait has failed inside wait(), wait() eventually
\* raises, whatever the other waits do; and once every wait task of a wait()
\* call has finished, wait() eventually returns or raises.
C15_WaitLiveness ==
    /\ (call = "wait" /\ pc = "fanout" /\ firstErr # NoHandle) ~> Raised("wait")
    /\ (call = "wait" /\ pc = "fanout" /\ InFlight(task) = {}) ~> Returned("wait")

\* wait() has raised although the wait task of a peer has not even begun
C15_Witness ==
    /\ Raised("wait")
    /\ \E h \in Registered : h # firstErr /\ bg[h].spawned = 1 /\ bg[h].running = 0

====
